---------------------------- MODULE Spec2Model ----------------------------
(***************************************************************************)
(* A model of the PlayStation memory-card reader: card_reader.py           *)
(* (verify_file, read_block, parse_header, get_title, main) and the icon   *)
(* decoder of ui.py (set_pixel, get_icon).                                 *)
(*                                                                         *)
(* A bytes object is a record [len, fill, at]: its length, and its bytes   *)
(* given as a finite map `at` from 0-based offsets to bytes over a default *)
(* byte `fill`.  Every bytes value has such a form; it keeps a 128 KiB     *)
(* card small.  Short fields are materialised as sequences of bytes.       *)
(* A str is a sequence of Unicode code points.                             *)
(***************************************************************************)
EXTENDS Integers, Sequences, FiniteSets, TLC

\* ------------------------------------------------------------ constants
CARD_SIZE == 131072

BLOCK_SIZE == 8192

FRAME_SIZE == 128

FIRST == 81

\* ------------------------------------------------------ integer helpers
Min(a, b) == IF a < b THEN a ELSE b

Max(a, b) == IF a > b THEN a ELSE b

RECURSIVE BitAnd(_, _)
\* Python's a & b on non-negative integers.
BitAnd(a, b) ==
    IF a = 0 \/ b = 0 THEN 0
    ELSE (a % 2) * (b % 2) + 2 * BitAnd(a \div 2, b \div 2)

RECURSIVE BitOr(_, _)
\* Python's a | b on non-negative integers.
BitOr(a, b) ==
    IF a = 0 THEN b
    ELSE IF b = 0 THEN a
    ELSE Max(a % 2, b % 2) + 2 * BitOr(a \div 2, b \div 2)

RECURSIVE Shl(_, _)
\* Python's a << n.
Shl(a, n) == IF n = 0 THEN a ELSE Shl(2 * a, n - 1)

RECURSIVE Shr(_, _)
\* Python's a >> n.
Shr(a, n) == IF n = 0 THEN a ELSE Shr(a \div 2, n - 1)

RECURSIVE FromBytesLittle(_)
\* int.from_bytes(bs, "little"): unsigned, least significant byte first.
FromBytesLittle(bs) ==
    IF bs = <<>> THEN 0 ELSE Head(bs) + 256 * FromBytesLittle(Tail(bs))

\* ------------------------------------------------------- bytes objects
\* data[k] for 0 <= k < len(data).
ByteAt(buf, k) == IF k \in DOMAIN buf.at THEN buf.at[k] ELSE buf.fill

\* data[a:b] for 0 <= a <= b; Python clips the slice to the length.
Slice(buf, a, b) ==
    LET hi == Min(b, buf.len)
        n  == Max(hi - a, 0)
        ks == {k \in DOMAIN buf.at : a <= k /\ k < hi}
    IN  [len  |-> n,
         fill |-> buf.fill,
         at   |-> [k \in {o - a : o \in ks} |-> buf.at[k + a]]]

\* The bytes of a (short) bytes object as a sequence.
Bytes(buf) == [j \in 1..buf.len |-> ByteAt(buf, j - 1)]

\* read_block(data, i): the i-th 8 KiB block.
read_block(data, i) == Slice(data, i * BLOCK_SIZE, i * BLOCK_SIZE + BLOCK_SIZE)

\* ---------------------------------------------------------- verify_file
\* A mutation of verify_file that forgets the magic.
verify_file_size_only(data) == data.len = CARD_SIZE

\* verify_file(data): the size is 128 KiB and the card starts with "MC".
verify_file(data) ==
    IF data.len # CARD_SIZE THEN FALSE
    ELSE IF Bytes(Slice(data, 0, 2)) # <<77, 67>> THEN FALSE
    ELSE TRUE


\* ------------------------------------------------ text: bytes.decode, strip
\* The result of a lookup that finds no character.
NoChar == 0 - 1

\* The double-byte table of the Shift-JIS codec that line 73 and line 97 call
\* (bytes.decode("shift_jis")), transcribed for the lead bytes 0x82 (full-width
\* digits and letters, hiragana) and 0x83 (katakana, Greek); every other trail
\* byte of these two rows is unassigned.  The rows of the other lead bytes
\* (0x81, 0x84, 0x88..0x9F, 0xE0..0xEA) are not transcribed: no input drawn
\* below holds one of them followed by an assigned trail byte.
Jisx0208(lead, trail) ==
    IF lead = 130 THEN
        IF trail \in 79..88 THEN 65296 + (trail - 79)
        ELSE IF trail \in 96..121 THEN 65313 + (trail - 96)
        ELSE IF trail \in 129..154 THEN 65345 + (trail - 129)
        ELSE IF trail \in 159..241 THEN 12353 + (trail - 159)
        ELSE NoChar
    ELSE IF lead = 131 THEN
        IF trail \in 64..126 THEN 12449 + (trail - 64)
        ELSE IF trail \in 128..150 THEN 12512 + (trail - 128)
        ELSE IF trail \in 159..175 THEN 913 + (trail - 159)
        ELSE IF trail \in 176..182 THEN 931 + (trail - 176)
        ELSE IF trail \in 191..207 THEN 945 + (trail - 191)
        ELSE IF trail \in 208..214 THEN 963 + (trail - 208)
        ELSE NoChar
    ELSE NoChar

\* The lead bytes of a double-byte character.
IsLead(b) == b \in 129..159 \/ b \in 224..234

\* The character of a byte that stands alone (ASCII, half-width katakana).
SingleByteChar(b) ==
    IF b < 128 THEN b
    ELSE IF b \in 161..223 THEN b + 65216
    ELSE NoChar

\* The least element of a non-empty set of integers.
Least(S) == CHOOSE m \in S : \A o \in S : m <= o

\* The greatest element of a non-empty set of integers.
Greatest(S) == CHOOSE m \in S : \A o \in S : m >= o

RECURSIVE ShiftJisDecode(_)
\* bs.decode("shift_jis") with the default errors="strict": [ok, text], ok
\* FALSE when the codec raises UnicodeDecodeError (an unassigned byte, a lead
\* byte with no assigned trail byte, a lead byte at the end of the field).
\* The bytes before the first byte p that does not stand alone are one
\* character each; p and the byte after it are one character, or the error.
ShiftJisDecode(bs) ==
    LET multi == {j \in 1..Len(bs) : SingleByteChar(bs[j]) = NoChar}
    IN  IF multi = {}
        THEN [ok |-> TRUE, text |-> [j \in 1..Len(bs) |-> SingleByteChar(bs[j])]]
        ELSE
            LET p == Least(multi)
                c == IF IsLead(bs[p]) /\ p < Len(bs)
                     THEN Jisx0208(bs[p], bs[p + 1])
                     ELSE NoChar
                rest == ShiftJisDecode(SubSeq(bs, p + 2, Len(bs)))
            IN  IF c = NoChar THEN [ok |-> FALSE, text |-> <<>>]
                ELSE IF ~rest.ok THEN rest
                ELSE [ok   |-> TRUE,
                      text |-> [j \in 1..(p - 1) |-> SingleByteChar(bs[j])]
                               \o <<c>> \o rest.text]

\* A mutation of strip that keeps the padding.
StripNothing(s) == s

\* s.strip("\x00"): str.strip removes the characters at both ends, so the
\* text from its first to its last character that is not NUL.
StripNul(s) ==
    LET keep == {j \in 1..Len(s) : s[j] # 0}
    IN  IF keep = {} THEN <<>> ELSE SubSeq(s, Least(keep), Greatest(keep))

\* ------------------------------------------------------- DirectoryFrame
\* file_name = None (no code point is negative, so this is no str).
None == <<0 - 1>>

\* DirectoryFrame(state): the dataclass with its defaults.
DirectoryFrame(state) ==
    [state |-> state, file_size |-> 0, pointer |-> 0, file_name |-> None]

\* ----------------------------------------------------------- parse_header
\* The offsets the loop of parse_header visits: range(128, 16 * 128, 128).
FrameOffsets == [k \in 1..15 |-> k * FRAME_SIZE]

\* int.from_bytes(data[i + 4 : i + 7], "little")
file_size_field(data, i) == FromBytesLittle(Bytes(Slice(data, i + 4, i + 7)))

\* A mutation of the test for a first block: only the low byte is compared.
IsFirstLowByte(state) == state % 256 = FIRST

\* frame.state == FIRST
IsFirst(state) == state = FIRST

\* The body of the loop of parse_header for the frame at offset i:
\* [exc, frame], exc the exception the body raises ("none" when it appends
\* frame to directories).
ParseFrame(data, i) ==
    LET frame == DirectoryFrame(FromBytesLittle(Bytes(Slice(data, i, i + 4))))
    IN  IF ~IsFirst(frame.state) THEN [exc |-> "none", frame |-> frame]
        ELSE IF i + 8 >= data.len
        THEN [exc |-> "IndexError", frame |-> frame]
        ELSE
            LET name == ShiftJisDecode(Bytes(Slice(data, i + 10, i + 31)))
            IN  IF ~name.ok
                THEN [exc |-> "UnicodeDecodeError", frame |-> frame]
                ELSE [exc   |-> "none",
                      frame |-> [state     |-> frame.state,
                                 file_size |-> file_size_field(data, i),
                                 pointer   |-> ByteAt(data, i + 8),
                                 file_name |-> StripNul(name.text)]]

\* -------------------------------------------------------------- get_title
\* get_title(data, i): [ok, text], ok FALSE when the decode raises.
get_title(data, i) ==
    LET block == read_block(data, i + 1)
        title == ShiftJisDecode(Bytes(Slice(block, 4, 68)))
    IN  [ok |-> title.ok, text |-> StripNul(title.text)]


\* --------------------------------------------------------------- get_icon
\* The raw frames get_icon collects from the block (lines 76-86).
RawFrames(block, icon_type) ==
    <<Bytes(Slice(block, 128, 256))>>
    \o (IF icon_type >= 18
        THEN <<Bytes(Slice(block, 256, 384))>>
             \o (IF icon_type >= 19
                 THEN <<Bytes(Slice(block, 384, 512))>>
                 ELSE <<>>)
        ELSE <<>>)

\* A mutation of the palette's place: the 32 bytes at 0x20.
PaletteRawAt0x20(block) == Bytes(Slice(block, 32, 64))

\* palette = block[96:128]
PaletteRaw(block) == Bytes(Slice(block, 96, 128))

\* A mutation of the conversion: the blue mask takes the low two bits too.
PaletteColorWideBlue(lo, hi) ==
    << Shl(BitAnd(lo, 31), 3),
       BitOr(Shl(BitAnd(hi, 3), 6), Shr(BitAnd(lo, 224), 2)),
       Shl(BitAnd(hi, 127), 1) >>

\* One palette entry as 8-bit RGB (lines 101-103), lo = palette[i] and
\* hi = palette[i + 1].
PaletteColor(lo, hi) ==
    << Shl(BitAnd(lo, 31), 3),
       BitOr(Shl(BitAnd(hi, 3), 6), Shr(BitAnd(lo, 224), 2)),
       Shl(BitAnd(hi, 124), 1) >>

\* The loop of lines 100-105: new_palette after range(0, 32, 2), entry
\* color_counter written at each turn, color_counter counting from 0.
ConvertedPalette(pal) ==
    [c \in 1..16 |-> PaletteColor(pal[2 * (c - 1) + 1], pal[2 * (c - 1) + 2])]

\* [0, 0, 0] * 16 * 16
BlankBitmap == [k \in 1..768 |-> 0]

\* A mutation of the allocation: two frames at most.
BlankFramesTwoAtMost(icon_type) ==
    <<BlankBitmap>> \o (IF icon_type >= 18 THEN <<BlankBitmap>> ELSE <<>>)

\* image_frames as lines 108-116 allocate it.
BlankFrames(icon_type) ==
    <<BlankBitmap>>
    \o (IF icon_type >= 18
        THEN <<BlankBitmap>>
             \o (IF icon_type >= 19 THEN <<BlankBitmap>> ELSE <<>>)
        ELSE <<>>)

\* set_pixel(image_data, x, y, color): the list after the three stores
\* (list index k is sequence index k + 1).
set_pixel(image_data, x, y, color) ==
    LET pixel_offset == (y * 16 + x) * 3
    IN  [image_data EXCEPT ![pixel_offset + 1] = color[1],
                           ![pixel_offset + 2] = color[2],
                           ![pixel_offset + 3] = color[3]]

\* A mutation of the nibble order: the high nibble first.
LeftIndexHighNibble(b) == Shr(b, 4)

\* frame[byte_count] & 0xF: the palette index of the left pixel.
LeftIndex(b) == BitAnd(b, 15)

\* frame[byte_count] >> 4: the palette index of the right pixel.
RightIndex(b) == Shr(b, 4)


\* ------------------------------------------------------------------ state
VARIABLES
    data,          \* the bytes read from the file
    pc,            \* where the run stands
    valid,         \* what verify_file returned
    raised,        \* the exception that ended the run, or "none"
    frame_no,      \* parse_header: the turn of its loop, 1..15 (offset i / 128)
    directories,   \* parse_header: the list it builds and returns
    main_i,        \* main: the index i of its loop over directories
    titles,        \* main: the titles printed so far
    total_size,    \* main: total_size
    free,          \* main: the two figures of the "Free Space" line
    icon_i,        \* get_icon: its argument i
    icon_type,     \* get_icon: icon_type
    frames,        \* get_icon: the raw frames
    palette,       \* get_icon: the raw palette
    new_palette,   \* get_icon: the RGB palette
    image_frames,  \* get_icon: the bitmaps
    fi,            \* get_icon: the index of the frame being drawn
    y,             \* get_icon: the row being drawn
    x,             \* get_icon: the column of the left pixel being drawn
    byte_count,    \* get_icon: byte_count
    writes         \* history: how often set_pixel stored each pixel of each bitmap

mainVars == <<valid, frame_no, directories, main_i, titles, total_size, free>>

iconVars == <<icon_i, icon_type, frames, palette, new_palette, image_frames,
              fi, y, x, byte_count, writes>>

vars == <<data, pc, raised, mainVars, iconVars>>

\* The locals of main and parse_header before they run.
MainIdle ==
    /\ valid = FALSE
    /\ frame_no = 1
    /\ directories = <<>>
    /\ main_i = 0
    /\ titles = <<>>
    /\ total_size = 0
    /\ free = <<120, 15>>

\* The locals of get_icon before it runs.
IconIdle ==
    /\ icon_type = 0
    /\ frames = <<>>
    /\ palette = <<>>
    /\ new_palette = <<>>
    /\ image_frames = <<>>
    /\ fi = 0
    /\ y = 0
    /\ x = 0
    /\ byte_count = 0
    /\ writes = <<>>

\* ------------------------------------------------------- card_reader.main
\* main, line 106: verify_file, and exit when the file is no card.
MainVerify ==
    /\ pc = "verify"
    /\ valid' = verify_file(data)
    /\ pc' = IF verify_file(data) THEN "parse" ELSE "exit"
    /\ UNCHANGED <<data, raised, frame_no, directories, main_i, titles,
                   total_size, free, iconVars>>

\* parse_header(read_block(data, 0)): one turn of its loop (lines 66-75).
ParseHeaderStep ==
    /\ pc = "parse"
    /\ frame_no <= 15
    /\ LET r == ParseFrame(read_block(data, 0), FrameOffsets[frame_no])
       IN  IF r.exc = "none"
           THEN /\ directories' = Append(directories, r.frame)
                /\ frame_no' = frame_no + 1
                /\ UNCHANGED <<pc, raised>>
           ELSE /\ raised' = r.exc
                /\ pc' = "raised"
                /\ UNCHANGED <<directories, frame_no>>
    /\ UNCHANGED <<data, valid, main_i, titles, total_size, free, iconVars>>

\* parse_header returns (line 77); main starts its loop (lines 111-114).
ParseHeaderReturn ==
    /\ pc = "parse"
    /\ frame_no = 16
    /\ pc' = "loop"
    /\ main_i' = 0
    /\ total_size' = 0
    /\ UNCHANGED <<data, raised, valid, frame_no, directories, titles, free,
                   iconVars>>

\* One turn of the loop of main (lines 114-129).
MainLoopStep ==
    /\ pc = "loop"
    /\ main_i < Len(directories)
    /\ LET directory == directories[main_i + 1]
           title == get_title(data, main_i)
       IN  IF directory.state # FIRST
           THEN /\ main_i' = main_i + 1
                /\ UNCHANGED <<pc, raised, titles, total_size>>
           ELSE IF ~title.ok
           THEN /\ raised' = "UnicodeDecodeError"
                /\ pc' = "raised"
                /\ UNCHANGED <<main_i, titles, total_size>>
           ELSE /\ titles' = Append(titles, title.text)
                /\ total_size' = total_size + directory.file_size
                /\ main_i' = main_i + 1
                /\ UNCHANGED <<pc, raised>>
    /\ UNCHANGED <<data, valid, frame_no, directories, free, iconVars>>

\* A mutation of the summary: free space that stops at zero.
MainSummaryClamped ==
    /\ pc = "loop"
    /\ main_i = Len(directories)
    /\ free' = <<Max(0, 120 - total_size \div 1024),
                 Max(0, 15 - total_size \div 8192)>>
    /\ pc' = "done"
    /\ UNCHANGED <<data, raised, valid, frame_no, directories, main_i, titles,
                   total_size, iconVars>>

\* The summary of main (lines 131-137).
MainSummary ==
    /\ pc = "loop"
    /\ main_i = Len(directories)
    /\ free' = <<120 - total_size \div 1024, 15 - total_size \div 8192>>
    /\ pc' = "done"
    /\ UNCHANGED <<data, raised, valid, frame_no, directories, main_i, titles,
                   total_size, iconVars>>

\* ------------------------------------------------------------ ui.get_icon
\* get_icon, lines 73-96: the block, icon_type, the raw frames and palette.
IconStart ==
    /\ pc = "icon"
    /\ LET block == read_block(data, icon_i + 1)
       IN  /\ icon_type' = ByteAt(block, 2)
           /\ frames' = RawFrames(block, ByteAt(block, 2))
           /\ palette' = PaletteRaw(block)
    /\ new_palette' = [c \in 1..16 |-> 0]
    /\ pc' = "palette"
    /\ UNCHANGED <<data, raised, mainVars, icon_i, image_frames, fi, y, x,
                   byte_count, writes>>

\* get_icon, lines 100-105: the palette as 8-bit RGB.
ConvertPalette ==
    /\ pc = "palette"
    /\ new_palette' = ConvertedPalette(palette)
    /\ pc' = "alloc"
    /\ UNCHANGED <<data, raised, mainVars, icon_i, icon_type, frames, palette,
                   image_frames, fi, y, x, byte_count, writes>>

\* get_icon, lines 108-118: the blank bitmaps.
AllocFrames ==
    /\ pc = "alloc"
    /\ image_frames' = BlankFrames(icon_type)
    /\ writes' = [f \in 1..Len(BlankFrames(icon_type)) |-> [q \in 1..256 |-> 0]]
    /\ fi' = 0
    /\ y' = 0
    /\ x' = 0
    /\ byte_count' = 0
    /\ pc' = "pixels"
    /\ UNCHANGED <<data, raised, mainVars, icon_i, icon_type, frames, palette,
                   new_palette>>

\* get_icon, lines 120-128: one turn of the innermost loop, two pixels of
\* frame fi; entering a frame resets byte_count and binds its bitmap, which
\* raises IndexError when image_frames has no bitmap for it.
PixelStep ==
    /\ pc = "pixels"
    /\ fi < Len(frames)
    /\ IF fi >= Len(image_frames)
       THEN /\ raised' = "IndexError"
            /\ pc' = "raised"
            /\ UNCHANGED <<image_frames, fi, y, x, byte_count, writes>>
       ELSE LET bc    == IF y = 0 /\ x = 0 THEN 0 ELSE byte_count
                b     == frames[fi + 1][bc + 1]
                left  == new_palette[LeftIndex(b) + 1]
                right == new_palette[RightIndex(b) + 1]
                lastx == x = 14
                lasty == y = 15
            IN  /\ image_frames' =
                     [image_frames EXCEPT ![fi + 1] =
                        set_pixel(set_pixel(@, x, y, left), x + 1, y, right)]
                /\ writes' =
                     [writes EXCEPT ![fi + 1][y * 16 + x + 1] = @ + 1,
                                    ![fi + 1][y * 16 + x + 2] = @ + 1]
                /\ byte_count' = bc + 1
                /\ x' = IF lastx THEN 0 ELSE x + 2
                /\ y' = IF ~lastx THEN y ELSE IF lasty THEN 0 ELSE y + 1
                /\ fi' = IF lastx /\ lasty THEN fi + 1 ELSE fi
                /\ UNCHANGED <<pc, raised>>
    /\ UNCHANGED <<data, mainVars, icon_i, icon_type, frames, palette,
                   new_palette>>

\* get_icon, lines 130-139: every frame is drawn; the bitmaps are returned.
IconReturn ==
    /\ pc = "pixels"
    /\ fi = Len(frames)
    /\ pc' = "done"
    /\ UNCHANGED <<data, raised, mainVars, iconVars>>


\* ----------------------------------------------------------------- inputs
\* The bounds of the inputs drawn below.
MaxShortLen == 3

MaxNameChars == 2

RECURSIVE ToBytesLittle(_, _)
\* v.to_bytes(n, "little")
ToBytesLittle(v, n) ==
    IF n = 0 THEN <<>> ELSE <<v % 256>> \o ToBytesLittle(v \div 256, n - 1)

\* bs.ljust(n, b"\x00")
PadNul(bs, n) == bs \o [j \in 1..(n - Len(bs)) |-> 0]

\* The buffer with bs stored at offset off.
Patch(buf, off, bs) ==
    [buf EXCEPT !.at = [o \in off..(off + Len(bs) - 1) |-> bs[o - off + 1]] @@ @]

\* A 128 KiB file of zeros that starts with the magic.
MagicCard == [len |-> CARD_SIZE, fill |-> 0, at |-> (0 :> 77) @@ (1 :> 67)]

\* The files verify_file is tried on: short ones, the lengths around the
\* card size and a block, with first bytes that are and are not the magic.
VerifyBuffers ==
    { [len  |-> n,
       fill |-> f,
       at   |-> [o \in {0, 1} \cap 0..(n - 1) |-> IF o = 0 THEN b0 ELSE b1]] :
        n \in (0..MaxShortLen)
              \cup {BLOCK_SIZE, CARD_SIZE - 1, CARD_SIZE, CARD_SIZE + 1},
        f \in {0, 77},
        b0 \in {77, 67, 109, 0},
        b1 \in {67, 77, 99, 0} }

\* str.encode("shift_jis") of one character: the inverse of the decoder's
\* tables, and the codec's two one-way pairs (YEN SIGN to 0x5C, OVERLINE to
\* 0x7E).  <<>> marks a character that is not drawn below.
EncodeChar(c) ==
    IF c < 128 THEN <<c>>
    ELSE IF c = 165 THEN <<92>>
    ELSE IF c = 8254 THEN <<126>>
    ELSE IF c \in 65377..65439 THEN <<c - 65216>>
    ELSE IF c \in 12353..12435 THEN <<130, 159 + (c - 12353)>>
    ELSE IF c \in 12449..12511 THEN <<131, 64 + (c - 12449)>>
    ELSE <<>>

RECURSIVE ShiftJisEncode(_)
\* text.encode("shift_jis")
ShiftJisEncode(text) ==
    IF text = <<>> THEN <<>>
    ELSE EncodeChar(Head(text)) \o ShiftJisEncode(Tail(text))

\* The characters names are drawn from: A, backslash, YEN SIGN, HIRAGANA A,
\* HALFWIDTH KATAKANA A.
TextSample == {65, 92, 165, 12354, 65393}

\* The names: every text of at most MaxNameChars sample characters, and one
\* that fills the 21 bytes of the field.
NameTexts ==
    UNION {[1..m -> TextSample] : m \in 0..MaxNameChars}
    \cup {[j \in 1..21 |-> 65]}

\* The name fields: the names encoded, and bytes that are no text (0x80, a
\* lead byte before the padding, a lead byte as the last byte of the field).
NameFields ==
    {ShiftJisEncode(n) : n \in NameTexts}
    \cup {<<128>>, <<66, 130>>, [j \in 1..21 |-> IF j = 21 THEN 130 ELSE 65]}

\* The allocation states: the seven of the format, zero, and two values
\* whose low byte or high byte is 0x51 (all below 2^31).
StateSample == {81, 82, 83, 160, 161, 162, 163, 0, 337, 1358954496}

\* The 31 bytes of a directory frame that parse_header may read.
DirFrame(state, size, b7, pointer, name) ==
    ToBytesLittle(state, 4) \o ToBytesLittle(size, 3) \o <<b7, pointer, 0>>
    \o PadNul(name, 21)

\* The card with the frame in directory slot p (1..15), or in every slot
\* (p = 0).
Place(card, p, fr) ==
    IF p # 0 THEN Patch(card, p * FRAME_SIZE, fr)
    ELSE [card EXCEPT !.at =
            [o \in {k * FRAME_SIZE + j : k \in 1..15, j \in 0..(Len(fr) - 1)}
               |-> fr[(o % FRAME_SIZE) + 1]] @@ @]

\* Cards for the allocation states: every state, in each slot and in all.
StateCards ==
    { Place(MagicCard, p, DirFrame(st, sz, 255, 7, nm)) :
        p \in 0..15, st \in StateSample, sz \in {0, 16777215},
        nm \in {<<65>>, <<128>>} }

\* Cards for the fields of a first block: sizes, pointers and names.
FieldCards ==
    { Place(MagicCard, p, DirFrame(FIRST, sz, b, b, nm)) :
        p \in {0, 1, 15}, sz \in {0, 8192, 8388608, 16777215}, b \in {0, 255},
        nm \in NameFields }

\* Cards with two different slots in use.
PairCards ==
    { Place(Place(MagicCard, p, DirFrame(st, 8192, 0, p, <<65>>)),
            p + 1, DirFrame(FIRST, 16384, 0, p + 1, <<66, 66>>)) :
        p \in {1, 7, 14}, st \in {FIRST, 83, 160} }

\* Cards whose one save has a title: empty, "A", HIRAGANA A, and bytes that
\* are no text.
TitleCards ==
    { Patch(Place(MagicCard, p, DirFrame(FIRST, 8192, 0, 0, <<65>>)),
            p * BLOCK_SIZE + 4, t) :
        p \in {1, 15}, t \in {<<>>, <<65>>, <<130, 160>>, <<128>>, <<65, 131>>} }

DirCards == StateCards \cup FieldCards \cup PairCards \cup TitleCards

\* The raw palette number c of the 4096 that between them hold every pair
\* of bytes once: entry k holds pair number 16 * c + k, low byte first.
PaletteBytes(c) ==
    [j \in 1..32 |->
        LET n == 16 * c + (j - 1) \div 2
        IN  IF j % 2 = 1 THEN n % 256 ELSE n \div 256]

\* The bytes of three raw bitmaps: every byte value occurs in each, and the
\* first byte of the first is bm.
BitmapBytes(bm) == [j \in 1..384 |-> (bm + 33 * (j - 1) + 5 * ((j - 1) \div 128)) % 256]

\* The card whose save in slot i (0..14) has the icon type, the raw palette
\* number c at 0x60 and its complement at 0x20, and no bitmap bytes.
PaletteCard(i, type, c) ==
    LET base == (i + 1) * BLOCK_SIZE
    IN  Patch(Patch(Patch(MagicCard, base + 2, <<type>>),
                    base + 32, [j \in 1..32 |-> 255 - PaletteBytes(c)[j]]),
              base + 96, PaletteBytes(c))

\* The same card with three bitmaps at 0x80.
IconCard(i, type, c, bm) ==
    Patch(PaletteCard(i, type, c), (i + 1) * BLOCK_SIZE + 128, BitmapBytes(bm))

\* ---------------------------------------------------------- specifications
\* verify_file on files of every sampled length and start.
InitVerify ==
    /\ data \in VerifyBuffers
    /\ pc = "verify"
    /\ raised = "none"
    /\ icon_i = 0
    /\ MainIdle
    /\ IconIdle

NextVerify == MainVerify

SpecVerify == InitVerify /\ [][NextVerify]_vars

\* main of card_reader.py on the sampled cards.
InitDir ==
    /\ data \in DirCards
    /\ pc = "verify"
    /\ raised = "none"
    /\ icon_i = 0
    /\ MainIdle
    /\ IconIdle

NextDir ==
    \/ MainVerify
    \/ ParseHeaderStep
    \/ ParseHeaderReturn
    \/ MainLoopStep
    \/ MainSummary

SpecDir == InitDir /\ [][NextDir]_vars

\* get_icon up to the converted palette, on every pair of palette bytes.
InitPalette ==
    /\ \E i \in {0, 14}, c \in 0..4095 :
          /\ icon_i = i
          /\ data = PaletteCard(i, 17, c)
    /\ pc = "icon"
    /\ raised = "none"
    /\ MainIdle
    /\ IconIdle

NextPalette ==
    \/ IconStart
    \/ ConvertPalette

SpecPalette == InitPalette /\ [][NextPalette]_vars

\* get_icon up to the blank bitmaps, on every icon type.
InitFrames ==
    /\ \E i \in {0, 14}, type \in 0..255 :
          /\ icon_i = i
          /\ data = IconCard(i, type, 2730, 33)
    /\ pc = "icon"
    /\ raised = "none"
    /\ MainIdle
    /\ IconIdle

NextFrames ==
    \/ IconStart
    \/ ConvertPalette
    \/ AllocFrames

SpecFrames == InitFrames /\ [][NextFrames]_vars

\* get_icon on cards of every class of icon type.
InitIcon ==
    /\ \E i \in {0, 14}, type \in {0, 17, 18, 19, 20, 255}, c \in {0, 2730} :
          /\ icon_i = i
          /\ data = IconCard(i, type, c, 33)
    /\ pc = "icon"
    /\ raised = "none"
    /\ MainIdle
    /\ IconIdle

NextIcon ==
    \/ IconStart
    \/ ConvertPalette
    \/ AllocFrames
    \/ PixelStep
    \/ IconReturn

SpecIcon == InitIcon /\ [][NextIcon]_vars

\* ================================================================= claims
\* Byte j of directory frame k (1..15), read from the file itself.
FrameByte(k, j) == ByteAt(data, 128 * k + j)

\* The state field of directory frame k as a little-endian integer.
FrameState(k) ==
    FrameByte(k, 0) + 256 * FrameByte(k, 1) + 65536 * FrameByte(k, 2)
    + 16777216 * FrameByte(k, 3)

\* Byte j of the data block of the slot get_icon decodes.
IconBlockByte(j) == ByteAt(data, 8192 * (icon_i + 1) + j)

\* A palette entry by arithmetic on its two bytes.
ColorOf(lo, hi) ==
    <<(lo % 32) * 8, (hi % 4) * 64 + (lo \div 32) * 8, ((hi \div 4) % 32) * 8>>

RECURSIVE SumFirstSizes(_)
\* The sum of file_size over the entries of a directory whose state is 0x51.
SumFirstSizes(dirs) ==
    IF dirs = <<>> THEN 0
    ELSE (IF Head(dirs).state = 81 THEN Head(dirs).file_size ELSE 0)
         + SumFirstSizes(Tail(dirs))

\* C1: verify_file returns true exactly for the buffers of length 131072
\* whose first two bytes are 'M','C', false for every other buffer, and never
\* raises; main goes on to parse exactly when it returned true.
C1_VerifyIffSizeAndMagic ==
    pc # "verify" =>
        /\ valid <=> (data.len = 131072 /\ ByteAt(data, 0) = 77
                      /\ ByteAt(data, 1) = 67)
        /\ raised = "none"
        /\ pc = (IF valid THEN "parse" ELSE "exit")

\* C1, witness: a file of the right size that starts with 'M' but not "MC"
\* has been rejected.
C1_RejectedByMagic ==
    /\ pc = "exit"
    /\ data.len = 131072
    /\ ByteAt(data, 0) = 77
    /\ ByteAt(data, 1) # 67
    /\ ~valid

\* C2: after a card passes verify_file, no decode operation (parse_header,
\* get_title) raises, whatever the bytes of the card: text that is no valid
\* double-byte sequence is decoded lossily.
C2_NoDecodeRaises == valid => raised = "none"

C4_PaletteAt0x20 ==
    pc = "alloc" =>
        \A k \in 0..15 :
            new_palette[k + 1]
                = ColorOf(IconBlockByte(32 + 2 * k), IconBlockByte(33 + 2 * k))

\* C4 as amended: palette entry k of get_icon is decoded from the two bytes
\* at block offsets 0x60 + 2k (low) and 0x60 + 2k + 1 (high), and from no
\* other byte of the block.
C4_PaletteAt0x60 ==
    pc = "alloc" =>
        \A k \in 0..15 :
            new_palette[k + 1]
                = ColorOf(IconBlockByte(96 + 2 * k), IconBlockByte(97 + 2 * k))

\* C4, witness: a palette has been converted whose last entry differs from
\* what the bytes at 0x20 would give.
C4_ConvertedFrom0x60 ==
    /\ pc = "alloc"
    /\ icon_i = 14
    /\ IconBlockByte(126) # IconBlockByte(62)
    /\ new_palette[16] = ColorOf(IconBlockByte(126), IconBlockByte(127))
    /\ new_palette[16] # ColorOf(IconBlockByte(62), IconBlockByte(63))

\* C5: parse_header on the header block always returns exactly 15 entries,
\* for any block content, entry k carrying the little-endian state of the
\* frame at offset 128 * (k + 1).
C5_AlwaysFifteenEntries ==
    /\ ~(pc = "raised" /\ frame_no <= 15)
    /\ pc \in {"loop", "done"} =>
          /\ Len(directories) = 15
          /\ \A k \in 1..15 : directories[k].state = FrameState(k)

\* C6: every directory frame whose little-endian state is not exactly 0x51
\* gets an entry that carries only that state (file_size 0, pointer 0,
\* file_name None), whatever its other bytes; the loop of parse_header does
\* not raise on such a frame.
C6_OtherStatesCarryOnlyState ==
    /\ \A k \in 1..Len(directories) :
          FrameState(k) # 81 =>
              directories[k] = [state     |-> FrameState(k),
                                file_size |-> 0,
                                pointer   |-> 0,
                                file_name |-> None]
    /\ (pc = "raised" /\ frame_no <= 15) => FrameState(frame_no) = 81

\* C6, witness: a frame of state 0x151 with a size field of 0xFFFFFF and a
\* name field that is no text has been given an entry with file_size 0.
C6_State0x151Appended ==
    \E k \in 1..Len(directories) :
        /\ FrameState(k) = 337
        /\ FrameByte(k, 4) = 255
        /\ FrameByte(k, 10) = 128
        /\ directories[k].state = 337
        /\ directories[k].file_size = 0
        /\ directories[k].file_name = None

\* The 21 bytes of the name field of directory frame k.
FrameNameField(k) == [j \in 1..21 |-> FrameByte(k, 9 + j)]

\* The names that survive encoding and decoding: those without YEN SIGN and
\* OVERLINE.
RoundTripNames == {n \in NameTexts : \A j \in 1..Len(n) : n[j] \notin {165, 8254}}

\* The entry a frame of state 0x51 with name n is claimed to give.
RoundTripEntry(k, n) ==
    [state     |-> 81,
     file_size |-> FrameByte(k, 4) + 256 * FrameByte(k, 5) + 65536 * FrameByte(k, 6),
     pointer   |-> FrameByte(k, 8),
     file_name |-> n]

\* The name field a name is written to: encoded, null-padded to 21 bytes.
NameFieldOf == [n \in NameTexts |-> PadNul(ShiftJisEncode(n), 21)]

\* C7 as stated: a frame of state 0x51 whose name field holds the encoded
\* name N, null-padded, gets the entry with the 3-byte little-endian size
\* at 0x04, the byte at 0x08 as pointer and file_name = N, for every name N.
C7_RoundTripEveryName ==
    \A k \in 1..Len(directories) :
        FrameState(k) = 81 =>
            LET field == FrameNameField(k)
            IN  \A n \in NameTexts :
                    field = NameFieldOf[n] => directories[k] = RoundTripEntry(k, n)

\* C7 as amended: the same for every name N without the characters U+00A5
\* YEN SIGN and U+203E OVERLINE (which encode to the bytes 0x5C and 0x7E,
\* and those decode to backslash and tilde).
C7_RoundTripNamesTheCodecKeeps ==
    \A k \in 1..Len(directories) :
        FrameState(k) = 81 =>
            LET field == FrameNameField(k)
            IN  \A n \in RoundTripNames :
                    field = NameFieldOf[n] => directories[k] = RoundTripEntry(k, n)

\* C7, witness: the frame built with size 0x800000, 0xFF at 0x07 and 0x08
\* and the name HIRAGANA A, HALFWIDTH KATAKANA A has been parsed into its
\* entry.
C7_KanaNameParsed ==
    \E k \in 1..Len(directories) :
        /\ FrameState(k) = 81
        /\ FrameByte(k, 7) = 255
        /\ FrameNameField(k) = NameFieldOf[<<12354, 65393>>]
        /\ directories[k] = [state |-> 81, file_size |-> 8388608,
                             pointer |-> 255, file_name |-> <<12354, 65393>>]

\* The number of frames an icon type stands for.
FrameCountOf(type) == IF type < 18 THEN 1 ELSE IF type = 18 THEN 2 ELSE 3

\* C8: get_icon takes 1 frame when the byte at block offset 0x02 is below
\* 0x12, 2 when it is 0x12 and 3 when it is 0x13 or more; the raw frames
\* are the 128 bytes at 0x80, 0x100, 0x180 in this order; there are as many
\* bitmaps as raw frames, and no icon type is rejected.
C8_FrameCountByIconType ==
    /\ raised = "none"
    /\ pc \in {"palette", "alloc", "pixels"} =>
          /\ icon_type = IconBlockByte(2)
          /\ Len(frames) = FrameCountOf(IconBlockByte(2))
          /\ \A f \in 1..Len(frames) :
                frames[f] = [j \in 1..128 |-> IconBlockByte(128 * f + j - 1)]
    /\ pc = "pixels" =>
          /\ Len(image_frames) = Len(frames)
          /\ \A f \in 1..Len(image_frames) : Len(image_frames[f]) = 768

\* C8, witness: get_icon has made three bitmaps for icon type 0xFF, from
\* three raw frames.
C8_ThreeFramesForType0xFF ==
    /\ pc = "pixels"
    /\ IconBlockByte(2) = 255
    /\ Len(frames) = 3
    /\ Len(image_frames) = 3

\* C9: every palette entry with bytes lo, hi is converted to
\* r = (lo & 0x1F) << 3, g = ((hi & 0x03) << 6) | ((lo & 0xE0) >> 2),
\* b = (hi & 0x7C) << 1: the top bit of hi has no effect, each component is
\* a multiple of 8 in 0..248, and lo = 0x1F, hi = 0 gives (0xF8, 0, 0).
C9_PaletteColorBitExact ==
    pc = "alloc" =>
        \A k \in 0..15 :
            LET lo == palette[2 * k + 1]
                hi == palette[2 * k + 2]
                rgb == new_palette[k + 1]
            IN  /\ rgb = ColorOf(lo, hi)
                /\ rgb = ColorOf(lo, hi % 128)
                /\ \A ch \in 1..3 : rgb[ch] \in {8 * m : m \in 0..31}
                /\ (lo = 31 /\ hi = 0) => rgb = <<248, 0, 0>>

\* C9, witness: the entry with lo = 0x1F, hi = 0x80 has been converted to
\* (0xF8, 0, 0).
C9_RedWithTopBitSet ==
    /\ pc = "alloc"
    /\ \E k \in 0..15 :
          /\ palette[2 * k + 1] = 31
          /\ palette[2 * k + 2] = 128
          /\ new_palette[k + 1] = <<248, 0, 0>>

\* Whether get_icon has drawn pixel (px, py) of bitmap f (counted from 1).
Drawn(f, px, py) ==
    \/ f - 1 < fi
    \/ f - 1 = fi /\ (py < y \/ (py = y /\ px < x))

\* The palette index of pixel (px, py) in the raw frame f: a nibble of
\* source byte py * 8 + px / 2, the low one for even px.
NibbleOf(f, px, py) ==
    LET src == frames[f][py * 8 + px \div 2 + 1]
    IN  IF px % 2 = 0 THEN src % 16 ELSE src \div 16

\* C10: every bitmap has 768 bytes; the pixel (x, y) of a frame, once drawn,
\* holds at byte offset (y * 16 + x) * 3 the palette colour of its nibble
\* (low nibble for even x), the index being in 0..15; it is stored exactly
\* once; pixels not yet drawn, those of the other frames among them, keep
\* their zeros; drawing never raises.
C10_PixelsRowMajorByNibble ==
    /\ pc # "raised"
    /\ pc \in {"pixels", "done"} =>
        \A f \in 1..Len(image_frames) :
            /\ Len(image_frames[f]) = 768
            /\ \A px \in 0..15, py \in 0..15 :
                  LET at == (py * 16 + px) * 3
                      rgb == <<image_frames[f][at + 1], image_frames[f][at + 2],
                               image_frames[f][at + 3]>>
                  IN  /\ NibbleOf(f, px, py) \in 0..15
                      /\ rgb = (IF Drawn(f, px, py)
                                THEN new_palette[NibbleOf(f, px, py) + 1]
                                ELSE <<0, 0, 0>>)
                      /\ writes[f][py * 16 + px + 1]
                            = (IF Drawn(f, px, py) THEN 1 ELSE 0)

\* C10, witness: get_icon has returned three bitmaps whose first source
\* byte is 0x21; the first two pixels are palette[1] and palette[2], two
\* different colours.
C10_Byte0x21Drawn ==
    /\ pc = "done"
    /\ Len(image_frames) = 3
    /\ frames[1][1] = 33
    /\ SubSeq(image_frames[1], 1, 3) = new_palette[2]
    /\ SubSeq(image_frames[1], 4, 6) = new_palette[3]
    /\ new_palette[2] # new_palette[3]
    /\ \A f \in 1..3 : \A q \in 1..256 : writes[f][q] = 1

=============================================================================
